---- MODULE Spec2Model ----
(***************************************************************************)
(* Model of the image build engine (infra/build.go) and of the drop        *)
(* planner (functions.go).  A build is a recursive call: every invocation  *)
(* of Builder.build is a frame on `frames`, the last frame being the one   *)
(* that runs.  The storage driver, the parser, the repository and the      *)
(* isolator are the engine's collaborators; each of their calls may        *)
(* succeed or fail.                                                        *)
(***************************************************************************)
EXTENDS Naturals, Sequences, FiniteSets

\* ------------------------------------------------------------------ bounds
MaxFaults == 1      \* collaborator failures, plus the cancellation, one call may meet
MaxCalls  == 2      \* top-level Build / BuildFromFile calls on one Builder
MaxIDs    == 6      \* build identifiers in use at one time
MaxBuilds == 3      \* builds held by the storage the drop planner works on
MaxMsgs   == 3      \* messages the executor delivers for one Execute

\* ------------------------------------------------------------------ errors
Nil                  == "nil"
ErrImageDoesNotExist == "image does not exist"
ErrIO                == "driver i/o error"
ErrInvalidName       == "name is invalid"
ErrInvalidTag        == "tag is invalid"
ErrLoop              == "loop in dependencies detected"
ErrBaseTagsCount     == "for base image exactly one tag is required"
ErrDuplicateFrom     == "directive FROM may be specified only once"
ErrMissingFrom       == "description has to start with FROM directive"
ErrCommandFailed     == "command failed"
ErrCanceled          == "context canceled"
ErrTempDir           == "tempdir failed"
ErrInit              == "initializer failed"
ErrStart             == "isolator start failed"
ErrTerminate         == "isolator terminate failed"
ErrUmount            == "umount failed"
ErrSpecdir           == "specdir removal failed"
ErrImgUnmount        == "image unmount failed"
ErrRemove            == "scratch removal failed"
ErrDrop              == "drop failed"
ErrNoSelector        == "neither filters are provided nor All is set"
ErrNothingSelected   == "no builds were selected to delete"
ErrSomeDropsFailed   == "some drops failed"
ErrProtocol          == "unexpected message received"
ErrUnknownStream     == "unknown stream"
ErrNotMountable      == "non-mountable image type received"
ErrNotCloneable      == "build is not cloneable"
ErrInvalidBuildKey   == "build key is invalid"
ErrVMFile            == "reading the VM definition failed"
ErrDeploy            == "deploying the VM failed"

\* ------------------------------------------------------------- identifiers
DefaultTag  == "latest"
OtherTag    == "v1"
BadTag      == "bad tag"
BadName     == "bad/name"
ScratchName == "scratch"
Files       == {"a", "b"}
NoID        == 0
IDs         == 1..MaxIDs

\* NewBuildID(type) of Mount: the identifier carries its type, "mount" or
\* "boot"; the builder's identifiers, those of IDs, are images.
NewBuildIDOf(type) == IF type = "mount" THEN MaxIDs + 1 ELSE MaxIDs + 2

\* BuildID.Type()
Type(id) ==
  IF id = NewBuildIDOf("mount") THEN "mount"
  ELSE IF id = NewBuildIDOf("boot") THEN "boot"
  ELSE "image"

\* BuildType.Properties()
Properties(type) ==
  [Cloneable |-> type = "image", Mountable |-> type # "image", VM |-> type = "boot"]

ValidNames  == Files \cup {ScratchName}
ValidTags   == {DefaultTag, OtherTag}

IsNameValid(name) == name \in ValidNames
IsTagValid(tag)   == tag \in ValidTags

NewBuildKey(name, tag) == [Name |-> name, Tag |-> tag]
NoKey                  == NewBuildKey("", "")

\* -------------------------------------------------------------- descriptors
FromCommand(key)  == [op |-> "FROM", key |-> key, params |-> <<>>, command |-> ""]
ParamsCommand(ps) == [op |-> "PARAMS", key |-> NoKey, params |-> ps, command |-> ""]
RunCommand(c)     == [op |-> "RUN", key |-> NoKey, params |-> <<>>, command |-> c]

Describe(name, tags, commands) == [name |-> name, tags |-> tags, commands |-> commands]
NoDescriptor                   == Describe("", <<>>, <<>>)

EmptyManifest == [BuildID |-> NoID, BasedOn |-> NoID, Params |-> <<>>]

WellFormed(k) == <<FromCommand(k), ParamsCommand(<<"p1", "p1">>), RunCommand("make")>>

\* The working directories, each the spec files it holds: an empty one, a
\* chain (a FROM b, b FROM scratch), a FROM cycle, a FROM on a repository tag
\* next to a file with two FROMs, and a RUN before FROM next to a lone PARAMS.
SpecDirs ==
  { <<>>,
    [f \in Files |-> IF f = "a" THEN WellFormed(NewBuildKey("b", DefaultTag))
                     ELSE WellFormed(NewBuildKey(ScratchName, DefaultTag))],
    [f \in Files |-> IF f = "a" THEN WellFormed(NewBuildKey("b", DefaultTag))
                     ELSE WellFormed(NewBuildKey("a", DefaultTag))],
    [f \in Files |-> IF f = "a" THEN WellFormed(NewBuildKey("b", OtherTag))
                     ELSE <<FromCommand(NewBuildKey(ScratchName, DefaultTag)),
                            FromCommand(NewBuildKey(ScratchName, DefaultTag))>>],
    [f \in Files |-> IF f = "a" THEN <<RunCommand("make"), FromCommand(NewBuildKey("b", DefaultTag))>>
                     ELSE <<ParamsCommand(<<"p1">>)>>] }

\* The turns of the loop of osman.Build: directory of the spec file, spec
\* file, build.Names[i], build.Tags.  Each file is built under its own name
\* without tags; the file b of the chain directory also as a:v1.
FileCalls ==
  {<<d, f, f, <<>>>> : d \in SpecDirs, f \in Files}
    \cup {<<d, "b", "a", <<OtherTag>>>> :
            d \in {e \in SpecDirs : "b" \in DOMAIN e
                      /\ e["b"] = WellFormed(NewBuildKey(ScratchName, DefaultTag))}}

\* The repository: an in-memory lookup from build key to descriptor.
Repository ==
  [k \in {NewBuildKey("b", OtherTag)} |->
     Describe("b", <<OtherTag, DefaultTag>>,
              <<FromCommand(NewBuildKey(ScratchName, DefaultTag)), ParamsCommand(<<"p2">>)>>)]

\* The descriptors a caller may hand to Build.
TopDescriptors ==
  { Describe("b", <<>>, <<>>),
    Describe("b", <<DefaultTag, OtherTag>>, <<>>),
    Describe("a", <<OtherTag, OtherTag>>, <<FromCommand(NewBuildKey("b", DefaultTag))>>),
    Describe("a", <<BadTag>>, <<FromCommand(NewBuildKey("b", DefaultTag))>>),
    Describe(BadName, <<>>, <<>>),
    Describe("a", <<>>, <<FromCommand(NewBuildKey(BadName, DefaultTag))>>),
    Describe("a", <<>>, <<FromCommand(NewBuildKey("b", BadTag))>>) }

\* ------------------------------------------------------------------- state
VARIABLES
  rebuild,      \* Builder.rebuild
  readyBuilds,  \* Builder.readyBuilds: the keys marked ready
  specFiles,    \* the spec files of the working directory: file name -> commands
  stack,        \* the stack map of the running top-level call
  frames,       \* the running invocations of Builder.build, innermost last
  datasets,     \* storage: build id -> name of its dataset
  manifests,    \* storage: build id -> stored manifest
  tagIndex,     \* storage: build key -> build id
  mounts,       \* the kernel mount table, in file order
  dirs,         \* the scratch directories that exist
  cancelled,    \* ctx.Done() of the running top-level call
  faults,       \* failures raised by the collaborators so far
  calls,        \* top-level calls started so far
  allocs,       \* history: <<build id, key>> allocated in the running top-level call
  created,      \* history: build ids given a dataset in the running top-level call
  dpc,          \* drop planner: position in Drop
  filtering,    \* drop planner: config.Filter and config.Drop
  builds,       \* drop planner: the list List returned
  toDelete,     \* drop planner: the selected build ids
  tree,         \* drop planner: build id -> the id it is based on
  deleteSequence, \* drop planner: the order sort produced
  results,      \* drop planner: the results collected so far
  dropErr,      \* drop planner: the error Drop returned
  forest,       \* history: the BasedOn relation the drop planner started from
  mnt,          \* one call of Mount: its position, request, result and error
  run           \* one call of imageBuild.Run and the isolator session it talks to

storageVars == <<datasets, manifests, tagIndex>>
buildVars   == <<rebuild, readyBuilds, specFiles, stack, frames, mounts, dirs,
                 cancelled, faults, calls, allocs, created>>
dropVars    == <<dpc, filtering, builds, toDelete, tree, deleteSequence, results, dropErr, forest,
                 mnt>>
runVars     == <<run>>
vars        == <<storageVars, buildVars, dropVars, runVars>>

\* ------------------------------------------------------ storage driver
\* A function without the argument x.
Without(f, x) == [y \in DOMAIN f \ {x} |-> f[y]]
\* The function f with x mapped to v.
With(f, x, v) == [y \in DOMAIN f \cup {x} |-> IF y = x THEN v ELSE f[y]]

\* BuildID(key): the id the tag index holds for key, NoID on a miss.
StorageBuildID(key) == IF key \in DOMAIN tagIndex THEN tagIndex[key] ELSE NoID

\* Manifest(id): the stored manifest; a dataset sealed without one reads as
\* a base manifest carrying its own id.
StorageManifest(id) ==
  IF id \in DOMAIN manifests THEN manifests[id]
  ELSE [BuildID |-> id, BasedOn |-> NoID, Params |-> <<>>]

\* Tag(id, tag): (re)points the key of the dataset's name and tag to id.
StorageTag(id, tag) == With(tagIndex, NewBuildKey(datasets[id], tag), id)

\* Drop(id): the tag index once every tag pointing at id is gone.
StorageDropTags(id) ==
  [k \in {x \in DOMAIN tagIndex : tagIndex[x] # id} |-> tagIndex[k]]

\* Info(id).Tags
StorageTags(id) == {k.Tag : k \in {x \in DOMAIN tagIndex : tagIndex[x] = id}}

\* ------------------------------------------------------------ build frames
\* The locals of one invocation of Builder.build and of its imageBuild.
NewFrame(img) ==
  [ pc |-> "enter", img |-> img, tags |-> <<>>, keys |-> <<>>,
    buildID |-> NoID, path |-> NoID,
    imgUnmount |-> FALSE, terminateIsolator |-> FALSE,
    retErr |-> Nil, firstErr |-> Nil,
    i |-> 1, t |-> 1, fromDone |-> FALSE, manifest |-> EmptyManifest,
    src |-> NoKey, srcBuildID |-> NoID, srcManifest |-> EmptyManifest,
    err |-> Nil, resolved |-> "",
    sent |-> <<>>, nCloneFn |-> 0, nClone |-> 0, nMount |-> 0, nStart |-> 0,
    cleanup |-> <<>>, tried |-> <<>> ]

Running == Len(frames) > 0
Top     == frames[Len(frames)]
SetTop(f) == [frames EXCEPT ![Len(frames)] = f]
Push(f, g) == Append(SetTop(f), g)

\* `return err` inside build once the deferred cleanup is registered.
Fail(f, e) == [f EXCEPT !.retErr = e, !.firstErr = e, !.pc = "dTerminate"]

\* retErr after a cleanup step failed with e: the first error wins.
Coalesce(f, e) ==
  [f EXCEPT !.retErr = IF f.retErr = Nil THEN e ELSE f.retErr,
            !.firstErr = IF f.firstErr = Nil THEN e ELSE f.firstErr]

\* The disturbances of a behaviour are bounded: the failures raised so far and
\* the cancellation of the running call share the budget MaxFaults.
CanFault == faults + (IF cancelled THEN 1 ELSE 0) < MaxFaults
NoFault  == faults' = faults
Fault    == CanFault /\ faults' = faults + 1

\* ------------------------------------------------------------ mount table
ImageMount(path)   == [path |-> path, sub |-> ""]
SpecdirMount(path) == [path |-> path, sub |-> "/root/.specdir"]

\* One line of /proc/mounts split on spaces: device, mountpoint, the rest.
MountLine(m) == <<"dev", m, "rest">>

\* The test of umount: the mountpoint starts with imgPath + "/", or the whole
\* line equals imgPath + "/".
ReaperSelects(m, imgPath) ==
  \/ (m.path = imgPath /\ m.sub # "")
  \/ (Len(MountLine(m)) = 1 /\ m.path = imgPath)

RECURSIVE FirstSelected(_, _, _)
FirstSelected(table, imgPath, n) ==
  IF n > Len(table) THEN 0
  ELSE IF ReaperSelects(table[n], imgPath) THEN n
  ELSE FirstSelected(table, imgPath, n + 1)

RemoveAt(seq, n) == SubSeq(seq, 1, n - 1) \o SubSeq(seq, n + 1, Len(seq))

RECURSIVE RemoveMount(_, _)
RemoveMount(table, m) ==
  IF table = <<>> THEN <<>>
  ELSE IF Head(table) = m THEN RemoveMount(Tail(table), m)
  ELSE <<Head(table)>> \o RemoveMount(Tail(table), m)

MountsUnder(path) == {n \in 1..Len(mounts) : mounts[n].path = path}

\* ----------------------------------------------------------- entry points
\* The tag loop of build: validates each tag, checks and extends the stack.
RECURSIVE TagLoop(_, _, _, _, _)
TagLoop(name, tags, n, stk, keys) ==
  IF n > Len(tags) THEN [err |-> Nil, stack |-> stk, keys |-> keys]
  ELSE IF ~IsTagValid(tags[n]) THEN [err |-> ErrInvalidTag, stack |-> stk, keys |-> keys]
  ELSE IF NewBuildKey(name, tags[n]) \in stk THEN [err |-> ErrLoop, stack |-> stk, keys |-> keys]
  ELSE TagLoop(name, tags, n + 1, stk \cup {NewBuildKey(name, tags[n])},
               Append(keys, NewBuildKey(name, tags[n])))

\* A top-level call starts with a fresh stack map and a live context.
StartCall ==
  /\ ~Running
  /\ calls < MaxCalls
  /\ calls' = calls + 1
  /\ stack' = {}
  /\ cancelled' = FALSE
  /\ allocs' = {}
  /\ created' = {}

\* Builder.Build
Build(img) ==
  /\ StartCall
  /\ frames' = <<NewFrame(img)>>
  /\ UNCHANGED <<storageVars, dropVars, runVars, rebuild, readyBuilds, specFiles, mounts,
                 dirs, faults>>

\* One turn of the loop of osman.Build: os.Chdir to the directory of the spec
\* file, then Builder.BuildFromFile with the name and the tags of the turn.
\* The s.Info that follows a successful turn only reads the storage.  The
\* Builder takes further calls after a failed one, where the loop of
\* osman.Build returns.
BuildFromFile(dir, specFile, name, tags) ==
  /\ StartCall
  /\ specFiles' = dir
  /\ frames' = IF specFile \in DOMAIN dir
                 THEN <<NewFrame(Describe(name, tags, dir[specFile]))>>
                 ELSE <<>>
  /\ UNCHANGED <<storageVars, dropVars, runVars, rebuild, readyBuilds, mounts, dirs, faults>>

\* ctx is cancelled while a call runs.  The engine reads ctx.Done() only before
\* it dispatches a command, so the cancellation is placed where it is first
\* seen, or where Run waits for the executor.
Cancel ==
  /\ Running
  /\ \/ Top.pc = "cmd" /\ Top.i <= Len(Top.img.commands)
     \/ Top.pc = "receive"
  /\ ~cancelled
  /\ CanFault
  /\ cancelled' = TRUE
  /\ UNCHANGED <<storageVars, dropVars, runVars, rebuild, readyBuilds, specFiles, stack, frames,
                 mounts, dirs, faults, calls, allocs, created>>

\* The identifiers some build, tag, manifest, scratch directory, mount or
\* invocation of this call carries.
UsedIDs ==
  DOMAIN datasets \cup DOMAIN manifests \cup {tagIndex[k] : k \in DOMAIN tagIndex}
    \cup dirs \cup {p[1] : p \in allocs}
    \cup {mounts[n].path : n \in 1..Len(mounts)}
    \cup {frames[n].buildID : n \in 1..Len(frames)}

FreeIDs == IDs \ UsedIDs

\* NewBuildID: an identifier nothing else carries.
NewBuildID == CHOOSE id \in FreeIDs : \A other \in FreeIDs : id <= other

\* build, from its first line to the registration of the deferred cleanup.
BuildEnter ==
  /\ Running
  /\ Top.pc = "enter"
  /\ LET f    == Top
         tags == IF Len(f.img.tags) = 0 THEN <<DefaultTag>> ELSE f.img.tags
         loop == TagLoop(f.img.name, tags, 1, stack, <<>>)
     IN IF ~IsNameValid(f.img.name)
          THEN /\ frames' = SetTop([f EXCEPT !.retErr = ErrInvalidName,
                                             !.firstErr = ErrInvalidName, !.pc = "ret"])
               /\ NoFault
               /\ UNCHANGED <<stack, dirs, allocs>>
        ELSE IF loop.err # Nil
          THEN /\ frames' = SetTop([f EXCEPT !.tags = tags, !.retErr = loop.err,
                                             !.firstErr = loop.err, !.pc = "ret"])
               /\ stack' = loop.stack
               /\ NoFault
               /\ UNCHANGED <<dirs, allocs>>
        ELSE /\ FreeIDs # {}
             /\ stack' = loop.stack
             /\ allocs' = allocs \cup {<<NewBuildID, loop.keys[n]>> : n \in 1..Len(loop.keys)}
             /\ \/ /\ NoFault
                   /\ dirs' = dirs \cup {NewBuildID}
                   /\ frames' = SetTop([f EXCEPT !.tags = tags, !.keys = loop.keys,
                                                 !.buildID = NewBuildID, !.path = NewBuildID,
                                                 !.pc = "body"])
                \/ /\ Fault
                   /\ dirs' = dirs
                   /\ frames' = SetTop([f EXCEPT !.tags = tags, !.keys = loop.keys,
                                                 !.buildID = NewBuildID,
                                                 !.retErr = ErrTempDir, !.firstErr = ErrTempDir,
                                                 !.pc = "ret"])
  /\ UNCHANGED <<storageVars, dropVars, runVars, rebuild, readyBuilds, specFiles, mounts,
                 cancelled, calls, created>>

\* What every step of a running build leaves alone.
StepFrame == UNCHANGED <<dropVars, runVars, rebuild, specFiles, calls, cancelled>>

\* -------------------------------------------------------------- base image
\* BaseTagsCheck with any number of tags accepted.
BaseTagsCheck_Never(f) == FALSE

\* Base-image branch: is the number of tags other than one?
BaseTagsCheck(f) == Len(f.tags) # 1

\* Base-image branch: the tag count check and storage.CreateEmpty.
CreateEmpty ==
  /\ Running
  /\ Top.pc = "body"
  /\ Len(Top.img.commands) = 0
  /\ LET f == Top
     IN IF BaseTagsCheck(f)
          THEN /\ frames' = SetTop(Fail(f, ErrBaseTagsCount))
               /\ NoFault
               /\ UNCHANGED <<datasets, created>>
          ELSE \/ /\ NoFault
                  /\ datasets' = With(datasets, f.buildID, f.img.name)
                  /\ created' = created \cup {f.buildID}
                  /\ frames' = SetTop([f EXCEPT !.pc = "baseMount"])
               \/ /\ Fault
                  /\ frames' = SetTop(Fail(f, ErrIO))
                  /\ UNCHANGED <<datasets, created>>
  /\ StepFrame
  /\ UNCHANGED <<manifests, tagIndex, readyBuilds, stack, mounts, dirs, allocs>>

\* Base-image branch: storage.Mount.
MountBase ==
  /\ Running
  /\ Top.pc = "baseMount"
  /\ LET f == Top
     IN \/ /\ NoFault
           /\ mounts' = Append(mounts, ImageMount(f.path))
           /\ frames' = SetTop([f EXCEPT !.imgUnmount = TRUE, !.nMount = f.nMount + 1,
                                         !.pc = "baseInit"])
        \/ /\ Fault
           /\ mounts' = mounts
           /\ frames' = SetTop(Fail(f, ErrIO))
  /\ StepFrame
  /\ UNCHANGED <<storageVars, readyBuilds, stack, dirs, allocs, created>>

\* Builder.initialize
Initialize ==
  /\ Running
  /\ Top.pc = "baseInit"
  /\ LET f == Top
     IN \/ /\ NoFault
           /\ frames' = SetTop([f EXCEPT !.pc = "tag"])
        \/ /\ f.img.name # ScratchName
           /\ Fault
           /\ frames' = SetTop(Fail(f, ErrInit))
  /\ StepFrame
  /\ UNCHANGED <<storageVars, readyBuilds, stack, mounts, dirs, allocs, created>>

\* ------------------------------------------------------------ command loop
\* AtCommand without the look at ctx.Done().
AtCommand_IgnoresCtx(op) ==
  /\ Running
  /\ Top.pc = "cmd"
  /\ Top.i <= Len(Top.img.commands)
  /\ Top.img.commands[Top.i].op = op

\* The loop is about to dispatch a command of kind op and ctx is live.
AtCommand(op) ==
  /\ Running
  /\ Top.pc = "cmd"
  /\ Top.i <= Len(Top.img.commands)
  /\ ~cancelled
  /\ Top.img.commands[Top.i].op = op

\* The command loop starts once the cloneFn closure is built.
EnterLoop ==
  /\ Running
  /\ Top.pc = "body"
  /\ Len(Top.img.commands) > 0
  /\ frames' = SetTop([Top EXCEPT !.pc = "cmd"])
  /\ StepFrame
  /\ UNCHANGED <<storageVars, readyBuilds, stack, mounts, dirs, faults, allocs, created>>

\* ctx.Done() seen before a command is dispatched.
CtxDone ==
  /\ Running
  /\ Top.pc = "cmd"
  /\ Top.i <= Len(Top.img.commands)
  /\ cancelled
  /\ frames' = SetTop(Fail(Top, ErrCanceled))
  /\ StepFrame
  /\ UNCHANGED <<storageVars, readyBuilds, stack, mounts, dirs, faults, allocs, created>>

\* AfterLookup with the answer of the cache ignored: the source is always built.
AfterLookup_NoCache(f, id, err) ==
  IF err = Nil \/ err = ErrImageDoesNotExist
    THEN [f EXCEPT !.err = ErrImageDoesNotExist,
                   !.pc = IF f.img.commands[f.i].key.Tag = DefaultTag THEN "cfFile" ELSE "cfRepo"]
  ELSE Fail([f EXCEPT !.err = err], err)

\* History: cloneFn has tried the resolution step.
Tried(f, step) == [f EXCEPT !.tried = Append(f.tried, step)]

\* FileFallback with every tag sent to the spec file.
FileFallback_AnyTag(key) == TRUE

\* cloneFn: is the spec-file fallback tried for key?
FileFallback(key) == key.Tag = DefaultTag

\* Where cloneFn goes once the cache lookup has answered with err.
AfterLookup(f, id, err) ==
  IF err = Nil
    THEN [f EXCEPT !.srcBuildID = id, !.err = Nil, !.resolved = "cache", !.pc = "cfClone"]
  ELSE IF err = ErrImageDoesNotExist
    THEN [f EXCEPT !.err = err,
                   !.pc = IF FileFallback(f.img.commands[f.i].key) THEN "cfFile" ELSE "cfRepo"]
  ELSE Fail([f EXCEPT !.err = err], err)

\* FromCheck without the fromDone test.
FromCheck_Never(f) == FALSE

\* imageBuild.From: has a FROM already completed?
FromCheck(f) == f.fromDone

\* imageBuild.From up to the cache lookup of cloneFn.
From ==
  /\ AtCommand("FROM")
  /\ LET f0  == Top
         src == f0.img.commands[f0.i].key
         f   == [f0 EXCEPT !.src = src, !.nCloneFn = f0.nCloneFn + 1]
     IN IF FromCheck(f0)
          THEN /\ frames' = SetTop(Fail(f0, ErrDuplicateFrom))
               /\ NoFault
        ELSE IF ~IsNameValid(src.Name)
          THEN /\ frames' = SetTop(Fail(f, ErrInvalidName))
               /\ NoFault
        ELSE IF ~IsTagValid(src.Tag)
          THEN /\ frames' = SetTop(Fail(f, ErrInvalidTag))
               /\ NoFault
        ELSE IF ~rebuild \/ src \in readyBuilds
          THEN \/ /\ NoFault
                  /\ frames' = SetTop(AfterLookup(Tried(f, "cache"), StorageBuildID(src),
                                  IF StorageBuildID(src) = NoID THEN ErrImageDoesNotExist ELSE Nil))
               \/ /\ Fault
                  /\ frames' = SetTop(AfterLookup(Tried(f, "cache"), NoID, ErrIO))
        ELSE /\ frames' = SetTop(AfterLookup(f, NoID, ErrImageDoesNotExist))
             /\ NoFault
  /\ StepFrame
  /\ UNCHANGED <<storageVars, readyBuilds, stack, mounts, dirs, allocs, created>>

\* cloneFn: spec-file fallback, buildFromFile up to the call of build.
CloneFromFile ==
  /\ Running
  /\ Top.pc = "cfFile"
  /\ LET f == Tried(Top, "file")
     IN IF f.src.Name \in DOMAIN specFiles
          THEN frames' = Push([f EXCEPT !.pc = "waitFile"],
                              NewFrame(Describe(f.src.Name, <<DefaultTag>>, specFiles[f.src.Name])))
          ELSE frames' = SetTop([f EXCEPT !.err = ErrImageDoesNotExist, !.pc = "cfRepo"])
  /\ StepFrame
  /\ UNCHANGED <<storageVars, readyBuilds, stack, mounts, dirs, faults, allocs, created>>

\* cloneFn: repository fallback.
CloneFromRepo ==
  /\ Running
  /\ Top.pc = "cfRepo"
  /\ LET f == Tried(Top, "repo")
         baseImage == IF f.src \in DOMAIN Repository THEN Repository[f.src]
                      ELSE Describe(f.src.Name, <<f.src.Tag>>, <<>>)
     IN frames' = Push([f EXCEPT !.pc = "waitRepo"], NewFrame(baseImage))
  /\ StepFrame
  /\ UNCHANGED <<storageVars, readyBuilds, stack, mounts, dirs, faults, allocs, created>>

\* cloneFn: storage.BuildID of the source once it has been built.
CloneResolve ==
  /\ Running
  /\ Top.pc = "cfResolve"
  /\ LET f == Top
     IN \/ /\ NoFault
           /\ frames' = SetTop(IF StorageBuildID(f.src) = NoID
                                 THEN Fail(f, ErrImageDoesNotExist)
                                 ELSE [f EXCEPT !.srcBuildID = StorageBuildID(f.src),
                                                !.pc = "cfClone"])
        \/ /\ Fault
           /\ frames' = SetTop(Fail(f, ErrIO))
  /\ StepFrame
  /\ UNCHANGED <<storageVars, readyBuilds, stack, mounts, dirs, allocs, created>>

\* cloneFn: storage.Clone
Clone ==
  /\ Running
  /\ Top.pc = "cfClone"
  /\ LET f == Top
     IN \/ /\ NoFault
           /\ IF f.srcBuildID \in DOMAIN datasets
                THEN /\ datasets' = With(datasets, f.buildID, f.img.name)
                     /\ created' = created \cup {f.buildID}
                     /\ frames' = SetTop([f EXCEPT !.nClone = f.nClone + 1, !.pc = "cfMount"])
                ELSE /\ frames' = SetTop(Fail(f, ErrImageDoesNotExist))
                     /\ UNCHANGED <<datasets, created>>
        \/ /\ Fault
           /\ frames' = SetTop(Fail(f, ErrIO))
           /\ UNCHANGED <<datasets, created>>
  /\ StepFrame
  /\ UNCHANGED <<manifests, tagIndex, readyBuilds, stack, mounts, dirs, allocs>>

\* cloneFn: storage.Mount
CloneMount ==
  /\ Running
  /\ Top.pc = "cfMount"
  /\ LET f == Top
     IN \/ /\ NoFault
           /\ mounts' = Append(mounts, ImageMount(f.path))
           /\ frames' = SetTop([f EXCEPT !.imgUnmount = TRUE, !.nMount = f.nMount + 1,
                                         !.pc = "cfManifest"])
        \/ /\ Fault
           /\ mounts' = mounts
           /\ frames' = SetTop(Fail(f, ErrIO))
  /\ StepFrame
  /\ UNCHANGED <<storageVars, readyBuilds, stack, dirs, allocs, created>>

\* cloneFn: storage.Manifest
CloneManifest ==
  /\ Running
  /\ Top.pc = "cfManifest"
  /\ LET f == Top
     IN \/ /\ NoFault
           /\ frames' = SetTop(IF f.srcBuildID \in DOMAIN datasets
                                 THEN [f EXCEPT !.srcManifest = StorageManifest(f.srcBuildID),
                                                !.pc = "cfStart"]
                                 ELSE Fail(f, ErrImageDoesNotExist))
        \/ /\ Fault
           /\ frames' = SetTop(Fail(f, ErrIO))
  /\ StepFrame
  /\ UNCHANGED <<storageVars, readyBuilds, stack, mounts, dirs, allocs, created>>

\* cloneFn: isolator.Start, and the rest of imageBuild.From on success.
StartIsolator ==
  /\ Running
  /\ Top.pc = "cfStart"
  /\ LET f == Top
     IN \/ /\ NoFault
           /\ mounts' = Append(mounts, SpecdirMount(f.path))
           /\ frames' = SetTop([f EXCEPT !.terminateIsolator = TRUE, !.nStart = f.nStart + 1,
                                         !.manifest.BasedOn = f.srcManifest.BuildID,
                                         !.manifest.Params = f.srcManifest.Params,
                                         !.fromDone = TRUE, !.i = f.i + 1, !.pc = "cmd"])
        \/ /\ Fault
           /\ mounts' = mounts
           /\ frames' = SetTop(Fail(f, ErrStart))
  /\ StepFrame
  /\ UNCHANGED <<storageVars, readyBuilds, stack, dirs, allocs, created>>

\* imageBuild.Params: is the FROM still missing?
ParamsCheck(f) == ~f.fromDone

\* AppendParams that keeps one copy of a repeated parameter.
RECURSIVE AppendParams_Dedup(_, _)
AppendParams_Dedup(ps, args) ==
  IF args = <<>> THEN ps
  ELSE IF \E n \in 1..Len(ps) : ps[n] = Head(args) THEN AppendParams_Dedup(ps, Tail(args))
  ELSE AppendParams_Dedup(Append(ps, Head(args)), Tail(args))

\* imageBuild.Params: append(b.manifest.Params, cmd.Params...)
AppendParams(ps, args) == ps \o args

\* imageBuild.Params
Params ==
  /\ AtCommand("PARAMS")
  /\ LET f == Top
     IN frames' = SetTop(IF ParamsCheck(f) THEN Fail(f, ErrMissingFrom)
                         ELSE [f EXCEPT !.manifest.Params =
                                          AppendParams(f.manifest.Params, f.img.commands[f.i].params),
                                        !.i = f.i + 1])
  /\ StepFrame
  /\ UNCHANGED <<storageVars, readyBuilds, stack, mounts, dirs, faults, allocs, created>>

\* RunCheck without the fromDone test.
RunCheck_Never(f) == FALSE

\* imageBuild.Run: is the FROM still missing?
RunCheck(f) == ~f.fromDone

\* imageBuild.Run up to the Send of the Execute: once it is sent Run waits
\* for the answer of the executor.
Run ==
  /\ AtCommand("RUN")
  /\ LET f == Top
         g == [f EXCEPT !.sent = Append(f.sent, f.img.commands[f.i].command)]
     IN IF RunCheck(f)
          THEN /\ frames' = SetTop(Fail(f, ErrMissingFrom))
               /\ NoFault
          ELSE \/ /\ NoFault
                  /\ frames' = SetTop([g EXCEPT !.pc = "receive"])
               \/ /\ Fault
                  /\ frames' = SetTop(Fail(f, ErrIO))
  /\ StepFrame
  /\ UNCHANGED <<storageVars, readyBuilds, stack, mounts, dirs, allocs, created>>

\* imageBuild.Run, the Receive loop up to its return: success, or a failing
\* Receive or write, an unknown stream, a failed command, an unexpected message.
RunLoop ==
  /\ Running
  /\ Top.pc = "receive"
  /\ \/ /\ NoFault
        /\ frames' = SetTop([Top EXCEPT !.pc = "cmd", !.i = Top.i + 1])
     \/ /\ Fault
        /\ \E e \in {ErrIO, ErrUnknownStream, ErrCommandFailed, ErrProtocol} :
             frames' = SetTop(Fail(Top, e))
  /\ StepFrame
  /\ UNCHANGED <<storageVars, readyBuilds, stack, mounts, dirs, allocs, created>>

\* ------------------------------------------------------- manifest and tags
\* After the last command: manifest.BuildID is set and storage.StoreManifest called.
StoreManifest ==
  /\ Running
  /\ Top.pc = "cmd"
  /\ Top.i > Len(Top.img.commands)
  /\ LET f == Top
         m == [f.manifest EXCEPT !.BuildID = f.buildID]
     IN \/ /\ NoFault
           /\ manifests' = With(manifests, f.buildID, m)
           /\ frames' = SetTop([f EXCEPT !.manifest = m, !.pc = "tag"])
        \/ /\ Fault
           /\ manifests' = manifests
           /\ frames' = SetTop(Fail([f EXCEPT !.manifest = m], ErrIO))
  /\ StepFrame
  /\ UNCHANGED <<datasets, tagIndex, readyBuilds, stack, mounts, dirs, allocs, created>>

\* storage.Tag for the next key of the build.
Tag ==
  /\ Running
  /\ Top.pc = "tag"
  /\ Top.t <= Len(Top.keys)
  /\ LET f == Top
     IN \/ /\ NoFault
           /\ tagIndex' = StorageTag(f.buildID, f.keys[f.t].Tag)
           /\ frames' = SetTop([f EXCEPT !.t = f.t + 1])
        \/ /\ Fault
           /\ tagIndex' = tagIndex
           /\ frames' = SetTop(Fail(f, ErrIO))
  /\ StepFrame
  /\ UNCHANGED <<datasets, manifests, readyBuilds, stack, mounts, dirs, allocs, created>>

\* The keys of the build are marked ready and build returns nil.
MarkReady ==
  /\ Running
  /\ Top.pc = "tag"
  /\ Top.t > Len(Top.keys)
  /\ readyBuilds' = readyBuilds \cup {Top.keys[n] : n \in 1..Len(Top.keys)}
  /\ frames' = SetTop([Top EXCEPT !.pc = "dTerminate"])
  /\ StepFrame
  /\ UNCHANGED <<storageVars, stack, mounts, dirs, faults, allocs, created>>

\* --------------------------------------------------------- deferred cleanup
\* Where the deferred function goes after a step failed.
AfterCleanupError(step) == "ret"

\* History: the deferred function has called step.
Did(f, step) ==
  IF f.cleanup # <<>> /\ f.cleanup[Len(f.cleanup)] = step THEN f
  ELSE [f EXCEPT !.cleanup = Append(f.cleanup, step)]

\* Deferred: terminateIsolator, if the isolator was started.
DeferTerminate ==
  /\ Running
  /\ Top.pc = "dTerminate"
  /\ LET f0 == Top
         f  == IF f0.terminateIsolator THEN Did(f0, "terminate") ELSE f0
     IN IF ~f.terminateIsolator
          THEN /\ frames' = SetTop([f EXCEPT !.pc = "dUmount"])
               /\ NoFault
               /\ mounts' = mounts
          ELSE \/ /\ NoFault
                  /\ frames' = SetTop([f EXCEPT !.pc = "dUmount"])
                  /\ \/ mounts' = RemoveMount(mounts, SpecdirMount(f.path))
                     \/ mounts' = mounts
               \/ /\ Fault
                  /\ frames' = SetTop([Coalesce(f, ErrTerminate) EXCEPT !.pc = "dUmount"])
                  /\ mounts' = mounts
  /\ StepFrame
  /\ UNCHANGED <<storageVars, readyBuilds, stack, dirs, allocs, created>>

\* Deferred: one round of umount(path): the mount table is read and the first
\* selected mountpoint unmounted, or none is selected and umount returns nil.
DeferUmount ==
  /\ Running
  /\ Top.pc = "dUmount"
  /\ LET f == Did(Top, "umount")
         n == FirstSelected(mounts, f.path, 1)
     IN \/ /\ NoFault
           /\ IF n = 0
                THEN /\ mounts' = mounts
                     /\ frames' = SetTop([f EXCEPT !.pc = "dSpecdir"])
                ELSE /\ mounts' = RemoveAt(mounts, n)
                     /\ frames' = SetTop(f)
        \/ /\ Fault
           /\ mounts' = mounts
           /\ frames' = SetTop([Coalesce(f, ErrUmount) EXCEPT !.pc = AfterCleanupError("dSpecdir")])
  /\ StepFrame
  /\ UNCHANGED <<storageVars, readyBuilds, stack, dirs, allocs, created>>

\* Deferred: removal of the .specdir helper directory.
DeferSpecdir ==
  /\ Running
  /\ Top.pc = "dSpecdir"
  /\ LET f == Did(Top, "specdir")
     IN \/ /\ NoFault
           /\ frames' = SetTop([f EXCEPT !.pc = "dImgUnmount"])
        \/ /\ Fault
           /\ frames' = SetTop([Coalesce(f, ErrSpecdir) EXCEPT !.pc = AfterCleanupError("dImgUnmount")])
  /\ StepFrame
  /\ UNCHANGED <<storageVars, readyBuilds, stack, mounts, dirs, allocs, created>>

\* Deferred: the stored unmount handle of the image dataset.
DeferImgUnmount ==
  /\ Running
  /\ Top.pc = "dImgUnmount"
  /\ LET f == IF Top.imgUnmount THEN Did(Top, "imgUnmount") ELSE Top
     IN IF ~f.imgUnmount
          THEN /\ frames' = SetTop([f EXCEPT !.pc = "dRemove"])
               /\ NoFault
               /\ mounts' = mounts
          ELSE \/ /\ NoFault
                  /\ mounts' = RemoveMount(mounts, ImageMount(f.path))
                  /\ frames' = SetTop([f EXCEPT !.pc = "dRemove"])
               \/ /\ Fault
                  /\ mounts' = mounts
                  /\ frames' = SetTop([Coalesce(f, ErrImgUnmount) EXCEPT !.pc = AfterCleanupError("dRemove")])
  /\ StepFrame
  /\ UNCHANGED <<storageVars, readyBuilds, stack, dirs, allocs, created>>

\* Deferred: removal of the scratch directory; a directory that is still a
\* mountpoint or holds one cannot be removed.
DeferRemove ==
  /\ Running
  /\ Top.pc = "dRemove"
  /\ LET f == Did(Top, "remove")
     IN IF MountsUnder(f.path) # {}
          THEN /\ NoFault
               /\ dirs' = dirs
               /\ frames' = SetTop([Coalesce(f, ErrRemove) EXCEPT !.pc = AfterCleanupError("dDrop")])
          ELSE \/ /\ NoFault
                  /\ dirs' = dirs \ {f.path}
                  /\ frames' = SetTop([f EXCEPT !.pc = "dDrop"])
               \/ /\ Fault
                  /\ dirs' = dirs
                  /\ frames' = SetTop([Coalesce(f, ErrRemove) EXCEPT !.pc = AfterCleanupError("dDrop")])
  /\ StepFrame
  /\ UNCHANGED <<storageVars, readyBuilds, stack, mounts, allocs, created>>

\* retErr after storage.Drop of the failed build failed with e.
DropError(f, e) == [f EXCEPT !.retErr = e]

\* ShouldDrop with the build dropped whatever its outcome.
ShouldDrop_Always(f) == TRUE

\* Deferred: is the build dropped?
ShouldDrop(f) == f.retErr # Nil

\* Deferred: storage.Drop of the build, if it failed.
DeferDrop ==
  /\ Running
  /\ Top.pc = "dDrop"
  /\ LET f == IF ShouldDrop(Top) THEN Did(Top, "drop") ELSE Top
     IN IF ~ShouldDrop(f)
          THEN /\ frames' = SetTop([f EXCEPT !.pc = "ret"])
               /\ NoFault
               /\ UNCHANGED storageVars
          ELSE \/ /\ NoFault
                  /\ datasets' = Without(datasets, f.buildID)
                  /\ manifests' = Without(manifests, f.buildID)
                  /\ tagIndex' = StorageDropTags(f.buildID)
                  /\ frames' = SetTop([f EXCEPT !.pc = "ret"])
               \/ /\ Fault
                  /\ UNCHANGED storageVars
                  /\ frames' = SetTop([DropError(f, ErrDrop) EXCEPT !.pc = "ret"])
  /\ StepFrame
  /\ UNCHANGED <<readyBuilds, stack, mounts, dirs, allocs, created>>

\* Resume with the error of the nested build dropped.
Resume_IgnoresError(f, r) ==
  [f EXCEPT !.err = Nil, !.resolved = IF f.pc = "waitFile" THEN "file" ELSE "repo",
            !.pc = "cfResolve"]

\* The caller's cloneFn once the build it called has returned r.
Resume(f, r) ==
  IF f.pc = "waitFile"
    THEN IF r = Nil THEN [f EXCEPT !.err = r, !.resolved = "file", !.pc = "cfResolve"]
         ELSE IF r = ErrImageDoesNotExist THEN [f EXCEPT !.err = r, !.pc = "cfRepo"]
         ELSE Fail([f EXCEPT !.err = r], r)
    ELSE IF r = Nil THEN [f EXCEPT !.err = r, !.resolved = "repo", !.pc = "cfResolve"]
         ELSE Fail([f EXCEPT !.err = r], r)

\* build returns retErr to its caller; the locals of a top-level call die with it.
Return ==
  /\ Running
  /\ Top.pc = "ret"
  /\ LET f == Top
         n == Len(frames)
     IN IF n = 1
          THEN /\ frames' = <<>>
               /\ stack' = {}
               /\ allocs' = {}
               /\ created' = {}
               /\ cancelled' = FALSE
          ELSE /\ frames' = [SubSeq(frames, 1, n - 1) EXCEPT ![n - 1] = Resume(frames[n - 1], f.retErr)]
               /\ UNCHANGED <<stack, allocs, created, cancelled>>
  /\ UNCHANGED <<storageVars, dropVars, runVars, rebuild, readyBuilds, specFiles, mounts,
                 dirs, faults, calls>>

\* ------------------------------------------------------------ drop planner
\* Info(id): the denormalized view of a build.
StorageInfo(id) ==
  [BuildID |-> id, BasedOn |-> StorageManifest(id).BasedOn,
   Name |-> datasets[id], Tags |-> StorageTags(id)]

\* Builds(): the ids of the storage in the order the driver lists them.
RECURSIVE Ascending(_, _)
Ascending(S, n) ==
  IF S = {} THEN <<>>
  ELSE IF n \in S THEN <<n>> \o Ascending(S \ {n}, n + 1)
  ELSE Ascending(S, n + 1)

StorageBuilds == Ascending(DOMAIN datasets, 1)

\* listBuild: does the filter select the build?
listBuild(info, f) ==
  IF Type(info.BuildID) \notin f.Types THEN FALSE
  ELSE IF f.Untagged /\ info.Tags # {} THEN FALSE
  ELSE IF f.BuildIDs # {} /\ info.BuildID \in f.BuildIDs THEN TRUE
  ELSE IF f.BuildKeys # {}
          /\ (\/ NewBuildKey(info.Name, "") \in f.BuildKeys
              \/ \E tag \in info.Tags : \/ NewBuildKey(info.Name, tag) \in f.BuildKeys
                                        \/ NewBuildKey("", tag) \in f.BuildKeys)
    THEN TRUE
  ELSE f.BuildIDs = {} /\ f.BuildKeys = {}

\* The storage read that fails during one call of Drop: none, Builds(), the
\* Info(id) List calls, or the Info(id) the chain walk calls.
Breaks ==
  {[op |-> o, id |-> NoID] : o \in {"none", "Builds"}}
    \cup {[op |-> o, id |-> i] : o \in {"List", "Walk"}, i \in DOMAIN datasets}

\* The error of s.Info(id) called from the place named by op.
InfoErr(bad, op, id) == IF bad.op = op /\ bad.id = id THEN ErrIO ELSE Nil

\* The loop of List: the infos of the selected builds in storage order, or
\* the error of the first Info that failed.
RECURSIVE ListFrom(_, _, _)
ListFrom(ids, f, bad) ==
  IF ids = <<>> THEN [list |-> <<>>, err |-> Nil]
  ELSE IF InfoErr(bad, "List", Head(ids)) # Nil
    THEN [list |-> <<>>, err |-> InfoErr(bad, "List", Head(ids))]
  ELSE LET rest == ListFrom(Tail(ids), f, bad)
       IN IF rest.err # Nil THEN rest
          ELSE IF listBuild(StorageInfo(Head(ids)), f)
            THEN [list |-> <<StorageInfo(Head(ids))>> \o rest.list, err |-> Nil]
          ELSE rest

\* List: s.Builds(), then the loop.
List(f, bad) ==
  IF bad.op = "Builds" THEN [list |-> <<>>, err |-> ErrIO]
  ELSE ListFrom(StorageBuilds, f, bad)

\* The build the chain walk of Drop reads next, or the error of the read.
WalkNext(build, bad) ==
  [build |-> StorageInfo(build.BuildID), err |-> InfoErr(bad, "Walk", build.BuildID)]

\* The inner loop of the tree construction, started at build.
RECURSIVE Walk(_, _, _)
Walk(tr, build, bad) ==
  IF build.BuildID \in DOMAIN tr THEN [tree |-> tr, err |-> Nil]
  ELSE IF build.BasedOn = NoID
    THEN [tree |-> With(tr, build.BuildID, build.BasedOn), err |-> Nil]
  ELSE LET nxt == WalkNext(build, bad)
           tr1 == With(tr, build.BuildID, build.BasedOn)
       IN IF nxt.err # Nil THEN [tree |-> tr1, err |-> nxt.err]
          ELSE Walk(tr1, nxt.build, bad)

\* The outer loop of the tree construction.
RECURSIVE BuildTree(_, _, _)
BuildTree(bs, tr, bad) ==
  IF bs = <<>> THEN [tree |-> tr, err |-> Nil]
  ELSE LET w == Walk(tr, Head(bs), bad)
       IN IF w.err # Nil THEN w ELSE BuildTree(Tail(bs), w.tree, bad)

\* tree[id] of the Go map: the zero value for an id the map does not hold.
TreeAt(tr, id) == IF id \in DOMAIN tr THEN tr[id] ELSE NoID

\* ToDeleteAt with every build taken as selected.
ToDeleteAt_Always(del, id) == TRUE

\* toDelete[id] of the Go map.
ToDeleteAt(del, id) == id \in del

\* The recursive closure sort of Drop; st is [enqueued, seq].
RECURSIVE sort(_, _, _, _)
sort(tr, del, st, id) ==
  IF id \in st.enqueued THEN st
  ELSE LET st1 == IF TreeAt(tr, id) # NoID THEN sort(tr, del, st, TreeAt(tr, id)) ELSE st
       IN IF ToDeleteAt(del, id)
            THEN [enqueued |-> st1.enqueued \cup {id}, seq |-> Append(st1.seq, id)]
            ELSE st1

RECURSIVE SortAll(_, _, _, _)
SortAll(tr, del, st, bs) ==
  IF bs = <<>> THEN st.seq
  ELSE SortAll(tr, del, sort(tr, del, st, Head(bs).BuildID), Tail(bs))

\* NoSelector with every call let through.
NoSelector_Never(f) == FALSE

\* The selector check of Drop.
NoSelector(f) == ~f.All /\ f.BuildIDs = {} /\ f.BuildKeys = {}

DropUnchanged == UNCHANGED <<buildVars, runVars, filtering, forest, mnt>>

\* Drop, from the selector check to the end of sort.
DropPlan ==
  /\ dpc = "start"
  /\ \E bad \in Breaks :
       IF NoSelector(filtering)
         THEN /\ bad.op = "none"
              /\ dropErr' = ErrNoSelector
              /\ dpc' = "done"
              /\ UNCHANGED <<builds, toDelete, tree, deleteSequence>>
         ELSE LET l   == List(filtering, bad)
                  bs  == l.list
                  del == {bs[n].BuildID : n \in 1..Len(bs)}
                  t   == BuildTree(bs, <<>>, bad)
              IN IF l.err # Nil \/ t.err # Nil
                   THEN /\ dropErr' = IF l.err # Nil THEN l.err ELSE t.err
                        /\ dpc' = "done"
                        /\ UNCHANGED <<builds, toDelete, tree, deleteSequence>>
                   ELSE /\ builds' = bs
                        /\ toDelete' = del
                        /\ tree' = t.tree
                        /\ IF del = {}
                             THEN /\ dropErr' = ErrNothingSelected
                                  /\ dpc' = "done"
                                  /\ deleteSequence' = <<>>
                             ELSE /\ dropErr' = Nil
                                  /\ dpc' = "delete"
                                  /\ deleteSequence' =
                                       SortAll(t.tree, del, [enqueued |-> {}, seq |-> <<>>], bs)
  /\ UNCHANGED <<storageVars, results>>
  /\ DropUnchanged

\* The deletion loop: s.Drop of the build the loop index points at.
DropDelete ==
  /\ dpc = "delete"
  /\ Len(results) < Len(deleteSequence)
  /\ LET buildID == deleteSequence[Len(deleteSequence) - Len(results)]
     IN \/ /\ datasets' = Without(datasets, buildID)
           /\ manifests' = Without(manifests, buildID)
           /\ tagIndex' = StorageDropTags(buildID)
           /\ results' = Append(results, [BuildID |-> buildID, Result |-> Nil])
        \/ /\ UNCHANGED storageVars
           /\ results' = Append(results, [BuildID |-> buildID, Result |-> ErrDrop])
  /\ UNCHANGED <<dpc, builds, toDelete, tree, deleteSequence, dropErr>>
  /\ DropUnchanged

\* Drop returns its results.
DropReturn ==
  /\ dpc = "delete"
  /\ Len(results) = Len(deleteSequence)
  /\ dpc' = "done"
  /\ UNCHANGED <<storageVars, builds, toDelete, tree, deleteSequence, results, dropErr>>
  /\ DropUnchanged

\* SummaryError that looks at the first result only.
SummaryError_FirstOnly(rs) ==
  IF rs # <<>> /\ rs[1].Result # Nil THEN ErrSomeDropsFailed ELSE Nil

\* The drop command: the summary of the results Drop returned.
SummaryError(rs) ==
  IF \E n \in 1..Len(rs) : rs[n].Result # Nil THEN ErrSomeDropsFailed ELSE Nil

\* The drop command once Drop has returned: the error of Drop, or the summary.
DropCommand ==
  /\ dpc = "done"
  /\ dpc' = "exit"
  /\ dropErr' = IF dropErr # Nil THEN dropErr ELSE SummaryError(results)
  /\ UNCHANGED <<storageVars, builds, toDelete, tree, deleteSequence, results>>
  /\ DropUnchanged

\* ------------------------------------------------------------------ mount
\* A name as the mount command takes it: "", "name", ":tag" or "name:tag",
\* held as the name and the tag it is made of.
\* mount.Name == "" || strings.HasPrefix(mount.Name, ":")
NoName(n) == n.Name = ""

\* types.ParseBuildKey: "name", "name:tag" and ":tag" parse when the parts
\* they hold are valid.
ParseBuildKey(n) ==
  IF n = NoKey \/ (n.Name # "" /\ ~IsNameValid(n.Name)) \/ (n.Tag # "" /\ ~IsTagValid(n.Tag))
    THEN [key |-> NoKey, err |-> ErrInvalidBuildKey]
    ELSE [key |-> n, err |-> Nil]

\* cloneForMount: the error, and how many of Clone, StoreManifest and Tag
\* were done when it returned.
cloneForMount(fail) ==
  IF fail = "Clone" THEN [err |-> ErrIO, done |-> 0]
  ELSE IF fail = "StoreManifest" THEN [err |-> ErrIO, done |-> 1]
  ELSE IF fail = "Tag" THEN [err |-> ErrIO, done |-> 2]
  ELSE IF fail = "InfoClone" THEN [err |-> ErrIO, done |-> 3]
  ELSE [err |-> Nil, done |-> 3]

\* Mount up to its return: the error, the key of the clone, the image it was
\* cloned from and how far cloneForMount went.
MountOutcome(r, fail, rnd) ==
  LET stop(e) == [err |-> e, key |-> NoKey, image |-> NoID, done |-> 0]
      properties == Properties(r.Type)
      buildID == IF r.BuildID # NoID THEN r.BuildID ELSE StorageBuildID(r.BuildKey)
      name1 == IF properties.VM /\ NoName(r.Name)
                 THEN NewBuildKey(r.VMName, r.Name.Tag) ELSE r.Name
      name2 == IF NoName(name1)
                 THEN NewBuildKey(datasets[buildID], name1.Tag) ELSE name1
      parsed == ParseBuildKey(name2)
      buildKey == IF parsed.key.Tag = "" THEN NewBuildKey(parsed.key.Name, rnd) ELSE parsed.key
      clone == cloneForMount(fail)
  IN IF ~properties.Mountable THEN stop(ErrNotMountable)
     ELSE IF r.BuildID = NoID /\ fail = "BuildID" THEN stop(ErrIO)
     ELSE IF buildID = NoID THEN stop(ErrImageDoesNotExist)
     ELSE IF ~Properties(Type(buildID)).Cloneable THEN stop(ErrNotCloneable)
     ELSE IF fail = "Info" THEN stop(ErrIO)
     ELSE IF buildID \notin DOMAIN datasets THEN stop(ErrImageDoesNotExist)
     ELSE IF properties.VM /\ fail = "Doc" THEN stop(ErrVMFile)
     ELSE IF parsed.err # Nil THEN stop(parsed.err)
     ELSE [err |-> IF clone.err # Nil THEN clone.err
                   ELSE IF properties.VM /\ fail = "Deploy" THEN ErrDeploy ELSE Nil,
           key |-> buildKey, image |-> buildID, done |-> clone.done]

\* Mount: the whole call, with the storage as cloneForMount left it. fail is
\* the call that fails for a reason of its surroundings, rnd the tag
\* types.RandomString(5) gives.
Mount ==
  /\ mnt.pc = "start"
  /\ \E fail \in {"none", "BuildID", "Info", "Doc", "Clone", "StoreManifest", "Tag",
                   "InfoClone", "Deploy"},
        rnd \in {"r4nd0", "r4nd1"} :
       LET o == MountOutcome(mnt.req, fail, rnd)
           buildID == NewBuildIDOf(mnt.req.Type)
       IN /\ datasets' = IF o.done >= 1 THEN With(datasets, buildID, o.key.Name) ELSE datasets
          /\ manifests' = IF o.done >= 2
                            THEN With(manifests, buildID,
                                      [BuildID |-> buildID, BasedOn |-> o.image,
                                       Params |-> StorageManifest(o.image).Params])
                            ELSE manifests
          /\ tagIndex' = IF o.done >= 3 THEN With(tagIndex, o.key, buildID) ELSE tagIndex
          /\ mnt' = [mnt EXCEPT !.pc = "done", !.err = o.err,
                                !.BuildID = IF o.err = Nil THEN buildID ELSE NoID]
  /\ UNCHANGED <<buildVars, runVars, dpc, filtering, builds, toDelete, tree, deleteSequence,
                 results, dropErr, forest>>

\* No call of Mount is under way.
NoMount ==
  [pc |-> "idle", BuildID |-> NoID, err |-> Nil,
   req |-> [Type |-> "mount", BuildID |-> NoID, BuildKey |-> NoKey, Name |-> NoKey,
            VMName |-> ""]]

\* The calls of Mount: by build id or by build key, under each kind of name.
MountRequests ==
  [ Type : {"image", "mount", "boot"},
    BuildID : {NoID, 2, NewBuildIDOf("mount")},
    BuildKey : {NewBuildKey("a", DefaultTag)},
    Name : {NoKey, NewBuildKey("", OtherTag), NewBuildKey("b", OtherTag),
            NewBuildKey("a", ""), NewBuildKey(BadName, OtherTag)},
    VMName : {"", "b"} ]

\* The storages the drop planner is run on: MaxBuilds builds named in turn
\* "a" and "b", each based on none or on another one, without a cycle.
DropIDs == 1..MaxBuilds
DropName(id) == IF id % 2 = 1 THEN "a" ELSE "b"

RECURSIVE ReachesRoot(_, _, _)
ReachesRoot(parent, id, fuel) ==
  IF id = NoID THEN TRUE
  ELSE IF fuel = 0 THEN FALSE
  ELSE ReachesRoot(parent, parent[id], fuel - 1)

Forests == {p \in [DropIDs -> DropIDs \cup {NoID}] : \A id \in DropIDs : ReachesRoot(p, id, MaxBuilds)}

TagIndexes ==
  { <<>>,
    [k \in {NewBuildKey("a", DefaultTag)} |-> 1],
    [k \in {NewBuildKey("a", DefaultTag), NewBuildKey("b", OtherTag)} |->
       IF k.Name = "a" THEN 1 ELSE 2] }

Filters ==
  [ All : BOOLEAN, BuildIDs : SUBSET DropIDs,
    BuildKeys : {{}, {NewBuildKey("a", "")}, {NewBuildKey("", OtherTag)}},
    Untagged : BOOLEAN, Types : {{"image"}, {"mount"}} ]

\* No call of imageBuild.Run is under way.
NoRun ==
  [pc |-> "idle", fromDone |-> FALSE, script |-> <<>>, pos |-> 0,
   written |-> <<>>, sent |-> 0, err |-> Nil]

RunIdle == run = NoRun

BuilderIdle ==
  /\ rebuild = FALSE
  /\ readyBuilds = {}
  /\ specFiles = <<>>
  /\ stack = {}
  /\ frames = <<>>
  /\ mounts = <<>>
  /\ dirs = {}
  /\ cancelled = FALSE
  /\ faults = 0
  /\ calls = 0
  /\ allocs = {}
  /\ created = {}

InitDrop ==
  /\ BuilderIdle
  /\ forest \in Forests
  /\ datasets = [id \in DropIDs |-> DropName(id)]
  /\ manifests = [id \in {x \in DropIDs : forest[x] # NoID} |->
                    [BuildID |-> id, BasedOn |-> forest[id], Params |-> <<>>]]
  /\ tagIndex \in TagIndexes
  /\ \/ /\ filtering \in Filters
        /\ dpc = "start"
        /\ mnt = NoMount
     \/ /\ filtering = [All |-> FALSE, BuildIDs |-> {}, BuildKeys |-> {}, Untagged |-> FALSE, Types |-> {}]
        /\ dpc = "idle"
        /\ mnt \in {[NoMount EXCEPT !.pc = "start", !.req = r] : r \in MountRequests}
  /\ builds = <<>>
  /\ toDelete = {}
  /\ tree = <<>>
  /\ deleteSequence = <<>>
  /\ results = <<>>
  /\ dropErr = Nil
  /\ RunIdle

NextDrop ==
  \/ DropPlan
  \/ DropDelete
  \/ DropReturn
  \/ DropCommand
  \/ Mount

SpecDrop == InitDrop /\ [][NextDrop]_vars

\* -------------------------------------------------------- isolator session
\* wire.Stream
StreamOut     == 1
StreamErr     == 2
StreamUnknown == 3

\* The messages the executor may deliver.
Log(stream, text) ==
  [kind |-> "Log", Stream |-> stream, Text |-> text, ExitCode |-> 0, Error |-> ""]
Completed(code, error) ==
  [kind |-> "Completed", Stream |-> 0, Text |-> "", ExitCode |-> code, Error |-> error]
Unexpected ==
  [kind |-> "Execute", Stream |-> 0, Text |-> "", ExitCode |-> 0, Error |-> ""]

Messages ==
  { Log(st, t) : st \in {StreamOut, StreamErr, StreamUnknown}, t \in {"x", "y"} }
    \cup { Completed(0, ""), Completed(1, ""), Completed(0, "boom"), Unexpected }

\* What the executor delivers after one Execute, in order.
Scripts == UNION { [1..n -> Messages] : n \in 0..MaxMsgs }

\* toStream with every stream sent to stdout.
toStream_AlwaysOut(stream) == "stdout"

\* toStream: the file a Log is written to, "" for an unknown stream.
toStream(stream) ==
  IF stream = StreamOut THEN "stdout"
  ELSE IF stream = StreamErr THEN "stderr"
  ELSE ""

\* CompletedOK with the Error field ignored.
CompletedOK_ExitOnly(m) == m.ExitCode = 0

\* The test Run applies to a Completed message.
CompletedOK(m) == ~(m.ExitCode # 0 \/ m.Error # "")

RunReturn(e) == [run EXCEPT !.pc = "done", !.err = e]

RunUnchanged == UNCHANGED <<storageVars, buildVars, dropVars>>

\* imageBuild.Run: the FROM check and isolator.Send of the Execute.
RunSend ==
  /\ run.pc = "call"
  /\ IF RunCheck(run)
       THEN run' = RunReturn(ErrMissingFrom)
       ELSE \/ run' = [run EXCEPT !.sent = run.sent + 1, !.pc = "receive"]
            \/ run' = [RunReturn(ErrIO) EXCEPT !.sent = run.sent + 1]
  /\ RunUnchanged

\* imageBuild.Run: one round of the receive loop.
RunReceive ==
  /\ run.pc = "receive"
  /\ \/ run' = RunReturn(ErrIO)
     \/ /\ run.pos < Len(run.script)
        /\ LET m    == run.script[run.pos + 1]
               got  == [run EXCEPT !.pos = run.pos + 1]
               file == toStream(m.Stream)
           IN IF m.kind = "Log"
                THEN IF file = ""
                       THEN run' = [got EXCEPT !.pc = "done", !.err = ErrUnknownStream]
                       ELSE \/ run' = [got EXCEPT !.written =
                                         Append(run.written, [file |-> file, text |-> m.Text])]
                            \/ run' = [got EXCEPT !.pc = "done", !.err = ErrIO]
              ELSE IF m.kind = "Completed"
                THEN run' = [got EXCEPT !.pc = "done",
                                        !.err = IF CompletedOK(m) THEN Nil ELSE ErrCommandFailed]
              ELSE run' = [got EXCEPT !.pc = "done", !.err = ErrProtocol]
  /\ RunUnchanged

\* ------------------------------------------------------------ specification
DropIdle ==
  /\ dpc = "idle"
  /\ filtering = [All |-> FALSE, BuildIDs |-> {}, BuildKeys |-> {}, Untagged |-> FALSE, Types |-> {}]
  /\ builds = <<>>
  /\ toDelete = {}
  /\ tree = <<>>
  /\ deleteSequence = <<>>
  /\ results = <<>>
  /\ dropErr = Nil
  /\ forest = <<>>
  /\ mnt = NoMount

Init ==
  /\ rebuild \in BOOLEAN
  /\ readyBuilds = {}
  /\ specFiles \in SpecDirs
  /\ stack = {}
  /\ frames = <<>>
  /\ datasets = <<>>
  /\ manifests = <<>>
  /\ tagIndex = <<>>
  /\ mounts = <<>>
  /\ dirs = {}
  /\ cancelled = FALSE
  /\ faults = 0
  /\ calls = 0
  /\ allocs = {}
  /\ created = {}
  /\ DropIdle
  /\ RunIdle

Next ==
  \/ \E img \in TopDescriptors : Build(img)
  \/ \E c \in FileCalls : BuildFromFile(c[1], c[2], c[3], c[4])
  \/ Cancel
  \/ BuildEnter
  \/ CreateEmpty
  \/ MountBase
  \/ Initialize
  \/ EnterLoop
  \/ CtxDone
  \/ From
  \/ CloneFromFile
  \/ CloneFromRepo
  \/ CloneResolve
  \/ Clone
  \/ CloneMount
  \/ CloneManifest
  \/ StartIsolator
  \/ Params
  \/ Run
  \/ RunLoop
  \/ StoreManifest
  \/ Tag
  \/ MarkReady
  \/ DeferTerminate
  \/ DeferUmount
  \/ DeferSpecdir
  \/ DeferImgUnmount
  \/ DeferRemove
  \/ DeferDrop
  \/ Return

Spec == Init /\ [][Next]_vars

\* One call of imageBuild.Run on a session whose executor follows a script.
InitRun ==
  /\ BuilderIdle
  /\ datasets = <<>>
  /\ manifests = <<>>
  /\ tagIndex = <<>>
  /\ DropIdle
  /\ run \in [pc : {"call"}, fromDone : BOOLEAN, script : Scripts, pos : {0},
              written : {<<>>}, sent : {0}, err : {Nil}]

NextRun ==
  \/ RunSend
  \/ RunReceive

SpecRun == InitRun /\ [][NextRun]_vars

TypeOK ==
  /\ faults \in 0..MaxFaults
  /\ calls \in 0..MaxCalls
  /\ Len(frames) <= MaxIDs + 1

\* ------------------------------------------------------------------ claims
FrameIdx == 1..Len(frames)
Returning(n) == frames[n].pc = "ret"

\* C1: when a build that created its scratch directory returns, no mount is
\* left at or beneath the scratch path and the scratch directory is gone.
C1_NoResidueAtReturn ==
  \A n \in FrameIdx :
    (Returning(n) /\ frames[n].path # NoID)
      => (MountsUnder(frames[n].path) = {} /\ frames[n].path \notin dirs)

\* C2: when a build returns an error, the storage holds no manifest for its
\* buildID and no build key resolves to its buildID.
C2_FailedBuildLeavesNothing ==
  \A n \in FrameIdx :
    (Returning(n) /\ frames[n].retErr # Nil /\ frames[n].buildID # NoID)
      => /\ frames[n].buildID \notin DOMAIN manifests
         /\ \A k \in DOMAIN tagIndex : tagIndex[k] # frames[n].buildID

\* y is based on x, directly or through other builds.
RECURSIVE BasedOnChain(_, _, _)
BasedOnChain(y, x, fuel) ==
  IF fuel = 0 \/ y \notin DOMAIN forest \/ forest[y] = NoID THEN FALSE
  ELSE forest[y] = x \/ BasedOnChain(forest[y], x, fuel - 1)

Descendant(y, x) == BasedOnChain(y, x, MaxBuilds + 1)

\* C3: whenever Drop calls s.Drop(X) for a selected build X, s.Drop(Y) has
\* already been called for every selected build Y that descends from X.
C3_DescendantsDroppedFirst ==
  \A i \in 1..Len(results) : \A y \in toDelete :
    Descendant(y, results[i].BuildID)
      => \E j \in 1..(i - 1) : results[j].BuildID = y

\* The file the FROM of spec file f leads to, "" if it leads to none.
FileFrom(f) ==
  IF f \in DOMAIN specFiles /\ specFiles[f][1].op = "FROM"
     /\ specFiles[f][1].key.Tag = DefaultTag /\ specFiles[f][1].key.Name \in DOMAIN specFiles
    THEN specFiles[f][1].key.Name
    ELSE ""

RECURSIVE FileChain(_, _)
FileChain(f, fuel) ==
  IF fuel = 0 \/ FileFrom(f) = "" THEN {}
  ELSE {FileFrom(f)} \cup FileChain(FileFrom(f), fuel - 1)

\* The spec files reachable from f through FROM, and whether f is among them.
OnCycle(f) == f \in FileChain(f, Cardinality(Files))

\* The running top-level call builds, from its spec file, a key of a FROM cycle.
CyclicCall ==
  /\ Running
  /\ frames[1].img.name \in DOMAIN specFiles
  /\ frames[1].img = Describe(frames[1].img.name, <<>>, specFiles[frames[1].img.name])
  /\ OnCycle(frames[1].img.name)

TopReturning == Len(frames) = 1 /\ Returning(1)

\* C4 as stated: a top-level build of a key on a FROM cycle returns the
\* dependency-loop error and creates no dataset, whatever the storage holds
\* (read in the claim's favour: no collaborator failed, ctx is not cancelled).
C4_CycleAlwaysFails ==
  (TopReturning /\ CyclicCall /\ faults = 0 /\ ~cancelled)
    => (frames[1].retErr = ErrLoop /\ created = {})

\* The cache lookup of cloneFn would answer for key k.
Cached(k) == k \in DOMAIN tagIndex /\ (~rebuild \/ k \in readyBuilds)

NoCycleKeyCached ==
  \A f \in FileChain(frames[1].img.name, Cardinality(Files)) : ~Cached(NewBuildKey(f, DefaultTag))

\* C4 amended: if no key of the cycle is answered by the cache lookup, the
\* top-level build of a key on a FROM cycle returns an error and creates no
\* dataset; the error is the dependency-loop error unless the context was
\* cancelled or a collaborator failed.
C4_UncachedCycleFails ==
  (TopReturning /\ CyclicCall /\ NoCycleKeyCached)
    => /\ frames[1].retErr # Nil
       /\ created = {}
       /\ (faults = 0 /\ ~cancelled) => frames[1].retErr = ErrLoop

C4_Witness ==
  /\ TopReturning /\ CyclicCall /\ NoCycleKeyCached
  /\ frames[1].retErr = ErrLoop
  /\ Cardinality(allocs) > 1

\* C5: a tag is assigned only to a buildID whose manifest has been stored.
C5_TagOnlyAfterManifest ==
  \A k \in DOMAIN tagIndex : tagIndex[k] \in DOMAIN manifests

\* C6: with rebuild set, a FROM is answered from storage only for a key built
\* during the running top-level call; a key built by an earlier call is
\* rebuilt (read in the claim's favour: no collaborator has failed).
C6_RebuildAcrossCalls ==
  \A n \in FrameIdx :
    (rebuild /\ faults = 0 /\ frames[n].resolved = "cache")
      => \E p \in allocs : p[2] = frames[n].src

\* C7: the error build returns is the first error that occurred.
C7_FirstErrorReturned ==
  \A n \in FrameIdx : Returning(n) => frames[n].retErr = frames[n].firstErr

\* The step dispatches the command the top frame points at.
Dispatch(op) == AtCommand(op) /\ frames' # frames

TopNext == frames'[Len(frames')]

\* C8: a FROM whose key the cache lookup resolves goes on to clone the stored
\* build without a nested build, and no key is given a buildID twice in one
\* top-level call.
C8_Step ==
  /\ ( /\ Dispatch("FROM") /\ ~Top.fromDone /\ faults' = faults
       /\ IsNameValid(Top.img.commands[Top.i].key.Name)
       /\ IsTagValid(Top.img.commands[Top.i].key.Tag)
       /\ Cached(Top.img.commands[Top.i].key) )
       => /\ Len(frames') = Len(frames)
          /\ TopNext.pc = "cfClone"
          /\ TopNext.srcBuildID = tagIndex[Top.img.commands[Top.i].key]
          /\ allocs' = allocs
  /\ \A p, q \in allocs' : p[2] = q[2] => p[1] = q[1]

C8_CachedFromClones == [][C8_Step]_vars

C8_Witness ==
  /\ Running
  /\ Top.pc = "cfMount"
  /\ Top.resolved = "cache"
  /\ Top.buildID \in DOMAIN datasets
  /\ Len(frames) = 1
  /\ calls = 2

\* C9: one build calls cloneFn, Clone, Mount and isolator.Start at most once
\* each, and a FROM after a completed FROM fails with the duplicate-FROM error
\* without calling cloneFn.
C9_Step ==
  /\ \A n \in 1..Len(frames') :
       /\ frames'[n].nCloneFn <= 1
       /\ frames'[n].nClone <= 1
       /\ frames'[n].nMount <= 1
       /\ frames'[n].nStart <= 1
  /\ (Dispatch("FROM") /\ Top.fromDone)
       => /\ Len(frames') = Len(frames)
          /\ TopNext.retErr = ErrDuplicateFrom
          /\ TopNext.nCloneFn = Top.nCloneFn
          /\ UNCHANGED <<storageVars, mounts>>

C9_FromAtMostOnce == [][C9_Step]_vars

C9_Witness ==
  /\ Running
  /\ Top.retErr = ErrDuplicateFrom
  /\ Top.nCloneFn = 1 /\ Top.nClone = 1 /\ Top.nMount = 1 /\ Top.nStart = 1

\* C10: a PARAMS or RUN dispatched before a FROM has completed fails with the
\* missing-FROM error, leaves the session manifest unchanged and sends no
\* Execute to the isolator.
C10_Step ==
  ((Dispatch("PARAMS") \/ Dispatch("RUN")) /\ ~Top.fromDone)
    => /\ Len(frames') = Len(frames)
       /\ TopNext.retErr = ErrMissingFrom
       /\ TopNext.pc = "dTerminate"
       /\ TopNext.manifest = Top.manifest
       /\ TopNext.sent = Top.sent

C10_MissingFrom == [][C10_Step]_vars

C10_Witness ==
  /\ Running
  /\ Top.retErr = ErrMissingFrom
  /\ Top.img.commands[Top.i].op = "RUN"
  /\ Top.sent = <<>>
  /\ Top.manifest = EmptyManifest

\* The messages Run has received so far.
Received == SubSeq(run.script, 1, run.pos)

\* The position of the first message of seq, from n on, that is no Log; 0 if none.
RECURSIVE FirstNonLog(_, _)
FirstNonLog(seq, n) ==
  IF n > Len(seq) THEN 0
  ELSE IF seq[n].kind # "Log" THEN n
  ELSE FirstNonLog(seq, n + 1)

\* C11: a RUN sends exactly one Execute, and Run returns success iff the first
\* non-Log message it received is a Completed with exit code 0 and empty error;
\* a Completed with another exit code or an error, a message of another kind
\* or a failed Receive makes Run fail.
C11_RunOutcome ==
  (run.pc = "done" /\ run.fromDone)
    => LET n == FirstNonLog(Received, 1)
       IN /\ run.sent = 1
          /\ (run.err = Nil) <=> (/\ n # 0
                                  /\ Received[n].kind = "Completed"
                                  /\ Received[n].ExitCode = 0
                                  /\ Received[n].Error = "")
          /\ (n # 0 /\ Received[n].kind # "Completed") => run.err = ErrProtocol
          /\ (n # 0 /\ Received[n].kind = "Completed"
                /\ (Received[n].ExitCode # 0 \/ Received[n].Error # ""))
               => run.err = ErrCommandFailed
          /\ n \in {0, run.pos}

C11_Witness ==
  /\ run.pc = "done"
  /\ run.sent = 1
  /\ run.pos = 3
  /\ run.err = ErrCommandFailed
  /\ run.script[3].Error = "boom"

\* The writes the Log messages of seq ask for: out to stdout, err to stderr.
RECURSIVE ExpectedWrites(_)
ExpectedWrites(seq) ==
  IF seq = <<>> THEN <<>>
  ELSE IF Head(seq).kind = "Log" /\ Head(seq).Stream = StreamOut
    THEN <<[file |-> "stdout", text |-> Head(seq).Text]>> \o ExpectedWrites(Tail(seq))
  ELSE IF Head(seq).kind = "Log" /\ Head(seq).Stream = StreamErr
    THEN <<[file |-> "stderr", text |-> Head(seq).Text]>> \o ExpectedWrites(Tail(seq))
  ELSE ExpectedWrites(Tail(seq))

IsPrefix(p, q) == Len(p) <= Len(q) /\ SubSeq(q, 1, Len(p)) = p

\* C12: the Log messages received are written to the stream each one names, in
\* the order received, and when Run returns on a Completed every Log that came
\* before it has been written.
C12_LogsBeforeResult ==
  /\ IsPrefix(run.written, ExpectedWrites(Received))
  /\ (run.pc = "done" /\ run.pos > 0 /\ run.script[run.pos].kind = "Completed")
       => run.written = ExpectedWrites(SubSeq(run.script, 1, run.pos - 1))
  /\ (run.pc = "receive") => run.written = ExpectedWrites(Received)

C12_Witness ==
  /\ run.pc = "done"
  /\ run.err = Nil
  /\ run.written = <<[file |-> "stderr", text |-> "y"], [file |-> "stdout", text |-> "x"]>>

\* The positions of the deferred cleanup and of the return.
CleanupPCs == {"dTerminate", "dUmount", "dSpecdir", "dImgUnmount", "dRemove", "dDrop", "ret"}

\* C13: when ctx is cancelled as the loop is about to dispatch a command, the
\* build fails with ctx.Err() without dispatching it: no FROM is resolved, no
\* Execute is sent and the storage is left alone; a build that failed this way
\* dispatches no later command, stores no manifest and is given no tag.
C13_Step ==
  /\ ( /\ Running /\ Top.pc = "cmd" /\ Top.i <= Len(Top.img.commands)
       /\ cancelled /\ frames' # frames )
       => /\ Len(frames') = Len(frames)
          /\ TopNext.retErr = ErrCanceled
          /\ TopNext.pc = "dTerminate"
          /\ TopNext.i = Top.i
          /\ TopNext.sent = Top.sent
          /\ TopNext.nCloneFn = Top.nCloneFn
          /\ TopNext.manifest = Top.manifest
          /\ UNCHANGED storageVars
  /\ \A n \in 1..Len(frames') :
       frames'[n].firstErr = ErrCanceled
         => /\ frames'[n].pc \in CleanupPCs
            /\ frames'[n].buildID \notin DOMAIN manifests'
            /\ \A k \in DOMAIN tagIndex' : tagIndex'[k] # frames'[n].buildID
            /\ (n <= Len(frames) /\ frames[n].firstErr = ErrCanceled)
                 => /\ frames'[n].i = frames[n].i
                    /\ frames'[n].sent = frames[n].sent
                    /\ frames'[n].nCloneFn = frames[n].nCloneFn

C13_CancelStopsDispatch == [][C13_Step]_vars

C13_Witness ==
  /\ Running
  /\ Top.pc = "ret"
  /\ Top.retErr = ErrCanceled
  /\ Top.fromDone
  /\ Top.i = 2
  /\ Top.buildID \notin DOMAIN datasets

\* C14: a base image (no commands) whose tags, the default tag standing in
\* for an empty list, are not exactly one fails with the base-tags-count error
\* before CreateEmpty: no dataset, manifest or tag is ever created for it.
C14_Step ==
  /\ ( /\ Running /\ Top.pc = "body" /\ Len(Top.img.commands) = 0
       /\ Len(Top.tags) # 1 /\ frames' # frames )
       => /\ Len(frames') = Len(frames)
          /\ TopNext.retErr = ErrBaseTagsCount
          /\ TopNext.pc = "dTerminate"
          /\ UNCHANGED <<storageVars, created, mounts>>
  /\ \A n \in 1..Len(frames') :
       ( /\ Len(frames'[n].img.commands) = 0 /\ frames'[n].buildID # NoID
         /\ Len(frames'[n].tags) # 1 )
         => /\ frames'[n].buildID \notin created'
            /\ frames'[n].buildID \notin DOMAIN datasets'
            /\ frames'[n].buildID \notin DOMAIN manifests'
            /\ \A k \in DOMAIN tagIndex' : tagIndex'[k] # frames'[n].buildID

C14_BaseTagsCount == [][C14_Step]_vars

C14_Witness ==
  /\ Running
  /\ Top.pc = "ret"
  /\ Top.retErr = ErrBaseTagsCount
  /\ Top.tags = <<DefaultTag, OtherTag>>
  /\ Top.buildID \notin DOMAIN datasets
  /\ Len(frames) = 1

\* C15: Drop called without All and without build-ID and build-key filters
\* fails with the no-selector error at once: no build is listed, none is
\* dropped, the storage is left as it was.
C15_Step ==
  /\ ( /\ dpc = "start" /\ dpc' # dpc
       /\ ~filtering.All /\ filtering.BuildIDs = {} /\ filtering.BuildKeys = {} )
       => /\ dropErr' = ErrNoSelector
          /\ dpc' = "done"
          /\ builds' = <<>>
          /\ toDelete' = {}
          /\ results' = <<>>
          /\ UNCHANGED storageVars
  /\ (dropErr' = ErrNoSelector)
       => /\ builds' = <<>>
          /\ results' = <<>>
          /\ DOMAIN datasets' = DropIDs

C15_NoSelectorRejected == [][C15_Step]_vars

C15_Witness ==
  /\ dpc = "exit"
  /\ dropErr = ErrNoSelector
  /\ filtering.Untagged
  /\ filtering.Types = {"image"}
  /\ DOMAIN tagIndex # {}

\* C16: Drop calls s.Drop for every build of the delete sequence, last to
\* first, whatever the earlier calls returned, and records each outcome; the
\* drop command returns the summary error iff some result holds an error.
C16_AllDropsAttempted ==
  (dpc \in {"done", "exit"} /\ deleteSequence # <<>>)
    => /\ Len(results) = Len(deleteSequence)
       /\ \A n \in 1..Len(results) :
            /\ results[n].BuildID = deleteSequence[Len(deleteSequence) + 1 - n]
            /\ (results[n].Result = Nil) <=> (results[n].BuildID \notin DOMAIN datasets)
       /\ (dpc = "exit")
            => /\ (dropErr = ErrSomeDropsFailed)
                    <=> (\E n \in 1..Len(results) : results[n].Result # Nil)
               /\ (dropErr = Nil) <=> (\A n \in 1..Len(results) : results[n].Result = Nil)

C16_Witness ==
  /\ dpc = "exit"
  /\ Len(results) = 3
  /\ results[1].Result = ErrDrop
  /\ results[2].Result = Nil
  /\ results[3].Result = Nil
  /\ dropErr = ErrSomeDropsFailed

\* The steps the deferred cleanup of build f is to call, in order.
ExpectedCleanup(f) ==
  (IF f.terminateIsolator THEN <<"terminate">> ELSE <<>>)
    \o <<"umount", "specdir">>
    \o (IF f.imgUnmount THEN <<"imgUnmount">> ELSE <<>>)
    \o <<"remove">>
    \o (IF f.firstErr # Nil THEN <<"drop">> ELSE <<>>)

Called(f, step) == \E n \in 1..Len(f.cleanup) : f.cleanup[n] = step

\* C17: the deferred cleanup calls its steps in the order terminate (if the
\* isolator was started), reaper, .specdir removal, image unmount handle,
\* scratch removal, Drop (only if the build failed), skipping none; so the
\* unmount handle is called only after terminate, and Drop only after the
\* unmount handle; a build that succeeds goes through all steps but Drop.
C17_CleanupOrder ==
  \A n \in FrameIdx :
    LET f == frames[n]
    IN /\ IsPrefix(f.cleanup, ExpectedCleanup(f))
       /\ (Called(f, "imgUnmount") /\ f.terminateIsolator) => f.cleanup[1] = "terminate"
       /\ (Called(f, "drop") /\ f.imgUnmount) => Called(f, "imgUnmount")
       /\ Called(f, "drop") => f.firstErr # Nil
       /\ (f.pc = "ret" /\ f.path # NoID /\ f.retErr = Nil)
            => f.cleanup = ExpectedCleanup(f)
       /\ f.pc \notin CleanupPCs => f.cleanup = <<>>

C17_Witness ==
  /\ Running
  /\ Top.pc = "ret"
  /\ Top.cleanup = <<"terminate", "umount", "specdir", "imgUnmount", "remove", "drop">>
  /\ Top.firstErr = ErrCommandFailed

\* C18: when umount(path) has returned without error, the mount table holds
\* no entry whose mountpoint is path itself or lies beneath path.
C18_UmountLeavesNothing ==
  \A n \in FrameIdx :
    (frames[n].pc = "dSpecdir" /\ frames[n].retErr = Nil)
      => MountsUnder(frames[n].path) = {}

\* The arguments of the PARAMS directives of commands, in declaration order.
RECURSIVE DeclaredParams(_)
DeclaredParams(commands) ==
  IF commands = <<>> THEN <<>>
  ELSE (IF Head(commands).op = "PARAMS" THEN Head(commands).params ELSE <<>>)
         \o DeclaredParams(Tail(commands))

\* C19: the manifest stored for a derivative build that succeeds carries the
\* build's own id, is based on the build its FROM key resolves to, and lists
\* the parent's Params followed by the arguments of its PARAMS directives in
\* declaration order, duplicates kept.
C19_StoredManifest ==
  \A n \in FrameIdx :
    LET f == frames[n]
    IN (f.pc = "ret" /\ f.retErr = Nil /\ Len(f.img.commands) > 0)
         => /\ f.buildID \in DOMAIN manifests
            /\ f.img.commands[1].op = "FROM"
            /\ StorageBuildID(f.img.commands[1].key) \in DOMAIN datasets
            /\ manifests[f.buildID] =
                 [ BuildID |-> f.buildID,
                   BasedOn |-> StorageBuildID(f.img.commands[1].key),
                   Params  |-> StorageManifest(StorageBuildID(f.img.commands[1].key)).Params
                                 \o DeclaredParams(f.img.commands) ]

C19_Witness ==
  /\ Running
  /\ Top.pc = "ret"
  /\ Top.retErr = Nil
  /\ Top.buildID \in DOMAIN manifests
  /\ manifests[Top.buildID].Params = <<"p2", "p1", "p1">>
  /\ manifests[Top.buildID].BasedOn \in DOMAIN manifests

\* The orders in which cloneFn may go through its resolution steps.
ResolutionOrders ==
  { <<>>, <<"cache">>, <<"file">>, <<"repo">>, <<"cache", "file">>, <<"cache", "repo">>,
    <<"file", "repo">>, <<"cache", "file", "repo">> }

HasTried(f, step) == \E n \in 1..Len(f.tried) : f.tried[n] = step

\* C20: cloneFn resolves a FROM in the order cache lookup, spec-file build,
\* repository build.  The spec-file build is tried only after a miss or a
\* skipped lookup and only for the default tag; the repository build only
\* while the outcome is image-does-not-exist; any other error fails the FROM
\* at once, with no later step and no Clone, Mount or isolator Start.
C20_Step ==
  /\ \A n \in 1..Len(frames') :
       LET f == frames'[n]
       IN /\ f.tried \in ResolutionOrders
          /\ HasTried(f, "file") => f.src.Tag = DefaultTag
          /\ (HasTried(f, "repo") /\ f.src.Tag = DefaultTag) => HasTried(f, "file")
          /\ (f.nClone > 0 \/ f.nMount > 0 \/ f.nStart > 0) => f.err = Nil
          /\ f.err \notin {Nil, ErrImageDoesNotExist}
               => /\ f.pc \in CleanupPCs
                  /\ f.firstErr = f.err
                  /\ f.nClone = 0 /\ f.nMount = 0 /\ f.nStart = 0
                  /\ n = Len(frames')
                  /\ (n <= Len(frames) /\ frames[n].err = f.err) => f.tried = frames[n].tried
  /\ (Len(frames') = Len(frames) + 1 /\ Running)
       => LET before == Top
              after  == frames'[Len(frames)]
          IN /\ before.err = ErrImageDoesNotExist
             /\ before.srcBuildID = NoID
             /\ before.nClone = 0
             /\ (after.pc = "waitFile")
                  => /\ before.tried \in {<<>>, <<"cache">>}
                     /\ before.src.Tag = DefaultTag
                     /\ ~Cached(before.src)
             /\ (after.pc = "waitRepo")
                  => (before.src.Tag = DefaultTag => HasTried(before, "file"))

C20_ResolutionOrder == [][C20_Step]_vars

C20_Witness ==
  /\ Running
  /\ Top.pc = "cfMount"
  /\ Top.tried = <<"cache", "file", "repo">>
  /\ Top.src = NewBuildKey(ScratchName, DefaultTag)
  /\ Top.nClone = 1

\* The keys a build was asked to produce.
TargetKeys(f) ==
  LET tags == IF Len(f.img.tags) = 0 THEN <<DefaultTag>> ELSE f.img.tags
  IN {NewBuildKey(f.img.name, tags[j]) : j \in 1..Len(tags)}

\* C21: a build returns the dependency-loop error only when one of its keys is
\* the target of another build still in progress on the call chain.
C21_LoopOnlyOnCycle ==
  \A n \in FrameIdx :
    (frames[n].pc = "ret" /\ frames[n].retErr = ErrLoop /\ frames[n].buildID = NoID)
      => \E m \in 1..(n - 1) :
           /\ frames[m].pc \in {"waitFile", "waitRepo"}
           /\ TargetKeys(frames[n]) \cap TargetKeys(frames[m]) # {}

\* The build has marked its keys ready.
Marked(f) == f.pc \in CleanupPCs /\ f.keys # <<>> /\ f.t > Len(f.keys)

\* C22: when a build that marked its keys ready returns, its dataset is still
\* in the storage and its keys still resolve to it (read in the claim's
\* favour: only what the build's own cleanup dropped counts against it).
C22_ReadyOnlyIfKept ==
  \A n \in FrameIdx :
    (frames[n].pc = "ret" /\ Marked(frames[n]))
      => /\ frames[n].buildID \in DOMAIN datasets
         /\ \A j \in 1..Len(frames[n].keys) :
              StorageBuildID(frames[n].keys[j]) = frames[n].buildID

\* The builds a list of infos or of results is about.
IDsOf(rs) == {rs[n].BuildID : n \in 1..Len(rs)}

\* Drop went past the selection: it had a selector, the storage could be
\* read, and something was selected.
Planned ==
  /\ dpc \in {"delete", "done", "exit"}
  /\ dropErr \notin {ErrNoSelector, ErrNothingSelected, ErrIO}

\* Every result is about a selected build, and no build has two results.
C23_NoOtherResults ==
  /\ IDsOf(results) \subseteq IDsOf(builds)
  /\ \A n, m \in 1..Len(results) : results[n].BuildID = results[m].BuildID => n = m

\* The deletion loop has one iteration for every selected build, and has run
\* no more than that.
C23_Bounded ==
  /\ Len(deleteSequence) = Len(builds)
  /\ Len(results) <= Len(deleteSequence)

\* C23: on a storage whose BasedOn relation has no cycle, Drop plans one
\* deletion for every selected build, never holds a result for another build or
\* two for one build, and returns a result for every selected build.
C23_DropExactlySelected ==
  Planned => /\ C23_NoOtherResults
             /\ C23_Bounded
             /\ dpc \in {"done", "exit"} => IDsOf(results) = IDsOf(builds)

\* Drop has returned two results and left alone the unselected build that one
\* of the dropped builds was based on.
C23_Witness ==
  /\ dpc = "exit"
  /\ Len(results) >= 2
  /\ C23_NoOtherResults
  /\ \E n \in 1..Len(results) :
       /\ forest[results[n].BuildID] # NoID
       /\ forest[results[n].BuildID] \notin IDsOf(builds)
       /\ forest[results[n].BuildID] \in DOMAIN datasets

====
